---------------------------- MODULE Spec2Model ----------------------------
(***************************************************************************)
(* The collectd ipvs plugin (src/ipvs.c): the three plugin callbacks       *)
(* cipvs_init, cipvs_read and cipvs_shutdown, the two libipvs fetchers      *)
(* ipvs_get_services and ipvs_get_dests, the identifier builders get_pi    *)
(* and get_ti and the value-list submitters, run against a kernel IPVS     *)
(* table that changes underneath the plugin.                               *)
(*                                                                         *)
(* Addresses and ports are kept as the bytes found in memory (network      *)
(* byte order), identifiers as strings.                                    *)
(***************************************************************************)
EXTENDS Integers, Sequences, FiniteSets, TLC

(***************************************************************************)
(* Bounds of the model.                                                    *)
(***************************************************************************)
MaxServices == 2
MaxDests == 2
MaxChanges == 1
MaxLive == 2

(***************************************************************************)
(* Program constants.                                                      *)
(***************************************************************************)
IPPROTO_TCP == 6
IPPROTO_UDP == 17
DATA_MAX_NAME_LEN == 64

\* The null pointer, where a table is expected and where a text is: no
\* table is the empty tuple, no identifier the empty text.
NULL == << >>
NULL_TEXT == ""

(***************************************************************************)
(* The values the kernel table is built from.                              *)
(***************************************************************************)
Min(a, b) == IF a < b THEN a ELSE b

SeqSum(s) == LET F[k \in 0..Len(s)] == IF k = 0 THEN 0 ELSE F[k - 1] + s[k]
             IN  F[Len(s)]

\* struct ip_vs_stats_user of the entity with base b: five cumulative
\* counters, all different.
StatsOf(b) ==
    [conns    |-> b,
     inpkts   |-> 2 * b + 10,
     outpkts  |-> 2 * b + 20,
     inbytes  |-> 10 * b + 100,
     outbytes |-> 10 * b + 200]

\* fwmark, protocol, addr, port of the virtual services the kernel may hold.
ServiceKeys ==
    { [fwmark |-> 0, protocol |-> IPPROTO_TCP, addr |-> <<10, 0, 0, 1>>, port |-> <<0, 80>>],
      [fwmark |-> 0, protocol |-> IPPROTO_UDP, addr |-> <<10, 0, 0, 1>>, port |-> <<0, 80>>],
      [fwmark |-> 1, protocol |-> IPPROTO_TCP, addr |-> <<0, 0, 0, 0>>, port |-> <<0, 0>>],
      [fwmark |-> 2, protocol |-> IPPROTO_TCP, addr |-> <<0, 0, 0, 0>>, port |-> <<0, 0>>] }

\* addr, port of the real servers the kernel may hold.
DestKeys ==
    { [addr |-> <<10, 0, 0, 2>>, port |-> <<31, 144>>],
      [addr |-> <<192, 168, 100, 200>>, port |-> <<255, 255>>] }

KeyBase(k) == SeqSum(k.addr) + SeqSum(k.port)

(***************************************************************************)
(* Identifier builders.                                                    *)
(***************************************************************************)
Digits == <<"0", "1", "2", "3", "4", "5", "6", "7", "8", "9">>

RECURSIVE Dec(_)
Dec(n) == IF n < 10 THEN Digits[n + 1]
          ELSE Dec(n \div 10) \o Digits[(n % 10) + 1]

\* The four address bytes printed last byte first.
inet_ntoa_reversed(addr) ==
    Dec(addr[4]) \o "." \o Dec(addr[3]) \o "." \o
    Dec(addr[2]) \o "." \o Dec(addr[1])

\* inet_ntoa: dotted decimal of the four address bytes in memory order.
inet_ntoa(addr) ==
    Dec(addr[1]) \o "." \o Dec(addr[2]) \o "." \o
    Dec(addr[3]) \o "." \o Dec(addr[4])

\* The two bytes read as a 16-bit value of a little-endian host, unconverted.
ntohs_unswapped(port) == port[2] * 256 + port[1]

\* ntohs: the 16-bit value of two bytes in network order.
ntohs(port) == port[1] * 256 + port[2]

\* snprintf (buf, size, ...) of the text s: the length the whole text would
\* take, and what fits in size - 1 characters.
snprintf(s, size) ==
    [len |-> Len(s), buf |-> SubSeq(s, 1, Min(Len(s), size - 1))]

\* get_pi with the test of the length off by one: size < len.
get_pi_offbyone(se, size) ==
    LET out == snprintf(inet_ntoa(se.addr) \o "_" \o
                        (IF se.protocol = IPPROTO_TCP THEN "TCP" ELSE "UDP") \o
                        Dec(ntohs(se.port)), size)
    IN  [ret |-> IF (0 > out.len) \/ (size < out.len) THEN -1 ELSE 0,
         pi  |-> out.buf]

get_pi(se, size) ==
    LET out == snprintf(inet_ntoa(se.addr) \o "_" \o
                        (IF se.protocol = IPPROTO_TCP THEN "TCP" ELSE "UDP") \o
                        Dec(ntohs(se.port)), size)
    IN  [ret |-> IF (0 > out.len) \/ (size <= out.len) THEN -1 ELSE 0,
         pi  |-> out.buf]

get_ti(de, size) ==
    LET out == snprintf(inet_ntoa(de.addr) \o "_" \o Dec(ntohs(de.port)), size)
    IN  [ret |-> IF (0 > out.len) \/ (size <= out.len) THEN -1 ELSE 0,
         ti  |-> out.buf]

(***************************************************************************)
(* Value lists handed to plugin_dispatch_values.                           *)
(***************************************************************************)
total == "total"

cipvs_submit_connections(pi, ti, value) ==
    [type            |-> "connections",
     plugin          |-> "ipvs",
     plugin_instance |-> pi,
     type_instance   |-> IF ti # NULL_TEXT THEN ti ELSE total,
     values          |-> <<value>>]

cipvs_submit_if(pi, t, ti, rx, tx) ==
    [type            |-> t,
     plugin          |-> "ipvs",
     plugin_instance |-> pi,
     type_instance   |-> IF ti # NULL_TEXT THEN ti ELSE total,
     values          |-> <<rx, tx>>]

(***************************************************************************)
(* State.                                                                  *)
(***************************************************************************)
VARIABLES
    ktable,      \* kernel: the virtual services, each with its real servers
    changes,     \* kernel: changes made to the table so far
    quiet,       \* read cycles begun since the service table last changed
    pc,          \* where the host process is
    sockfd,      \* static int sockfd
    ipvs_info,   \* static struct ip_vs_getinfo ipvs_info
    fds,         \* the open descriptors of the process
    acquired,    \* descriptors socket () returned
    released,    \* descriptors close () released
    live,        \* malloc'ed buffers not yet freed
    services,    \* cipvs_read: struct ip_vs_get_services *services
    i,           \* cipvs_read: int i
    log,         \* what the latest cipvs_read did, in order
    rets,        \* return values of the last two cipvs_read calls
    initlog,     \* what cipvs_init did, in order
    init_ret,    \* return value of cipvs_init, once it returned
    nomem,       \* a malloc () of the process has returned NULL
    name_max,    \* the DATA_MAX_NAME_LEN of the build: sizeof (pi), sizeof (ti)
    args,        \* entries handed to an identifier builder called on its own
    ids        \* what the builder returned for them

kvars == <<ktable, changes, quiet>>
\* What is fixed when the plugin is built.
cvars == <<name_max>>
\* The identifier builders called on their own.
bvars == <<args, ids>>
pvars == <<pc, sockfd, ipvs_info, fds, acquired, released, live, services, i, log,
          rets, initlog, init_ret, nomem, cvars, bvars>>
vars == <<ktable, changes, quiet, pc, sockfd, ipvs_info, fds, acquired,
          released, live, services, i, log, rets, initlog, init_ret, nomem, cvars, bvars>>

(***************************************************************************)
(* The kernel side of the three socket options.                            *)
(***************************************************************************)
Remove(s, n) == SubSeq(s, 1, n - 1) \o SubSeq(s, n + 1, Len(s))

\* struct ip_vs_dest_entry as the kernel writes it for real server d of a
\* service with key k.
DestEntry(k, d) ==
    [addr |-> d.addr, port |-> d.port,
     stats |-> StatsOf(KeyBase(k) + k.protocol + KeyBase(d))]

\* struct ip_vs_service_entry as the kernel writes it.
ServiceEntry(svc) ==
    [fwmark    |-> svc.key.fwmark,
     protocol  |-> svc.key.protocol,
     addr      |-> svc.key.addr,
     port      |-> svc.key.port,
     num_dests |-> Len(svc.dests),
     stats     |-> StatsOf(KeyBase(svc.key) + svc.key.protocol)]

\* What a slot of a malloc'ed buffer may hold when the kernel did not write
\* it: here, an entry an earlier fetch left behind.
UninitServiceEntries ==
    { ServiceEntry([key |-> k, dests |-> <<d>>]) :
        k \in ServiceKeys, d \in { d \in DestKeys : d.port = <<31, 144>> } }

UninitDestEntries ==
    { DestEntry(k, d) :
        k \in { k \in ServiceKeys : k.fwmark # 0 }, d \in DestKeys }

\* The kernel's lookup of a service: by fwmark when it is set, by protocol,
\* address and port otherwise.
SameService(key, se) ==
    IF se.fwmark # 0 THEN key.fwmark = se.fwmark
    ELSE /\ key.fwmark = 0
         /\ key.protocol = se.protocol
         /\ key.addr = se.addr
         /\ key.port = se.port

\* IP_VS_SO_GET_INFO: refused, or the number of services.
KernelGetInfo ==
    { [ok |-> FALSE, num_services |-> 0] } \cup
    { [ok |-> TRUE, num_services |-> Len(ktable)] }

\* IP_VS_SO_GET_SERVICES for n entries: refused, or the first entries of the
\* table, at most n of them.
KernelGetServices(n) ==
    { [ok |-> FALSE, written |-> << >>] } \cup
    { [ok |-> TRUE,
       written |-> [m \in 1..Min(n, Len(ktable)) |-> ServiceEntry(ktable[m])]] }

\* IP_VS_SO_GET_DESTS for n entries of the service se names: refused (always
\* so when there is no such service), or the first real servers of it.
KernelGetDests(se, n) ==
    { [ok |-> FALSE, written |-> << >>] } \cup
    { [ok |-> TRUE,
       written |-> [m \in 1..Min(n, Len(ktable[s].dests)) |->
                       DestEntry(ktable[s].key, ktable[s].dests[m])]] :
        s \in { s \in 1..Len(ktable) : SameService(ktable[s].key, se) } }

(***************************************************************************)
(* What a callback did: kernel queries, identifiers built, value lists     *)
(* dispatched.  si and di are the table positions the step worked on.      *)
(***************************************************************************)
Ev(ev, si, di, arg) == [ev |-> ev, si |-> si, di |-> di, arg |-> arg]

Samples(l) == { l[n].arg : n \in { n \in 1..Len(l) : l[n].ev = "dispatch" } }

(***************************************************************************)
(* libipvs API.  Each fetcher yields the set of results one call may have. *)
(***************************************************************************)
\* ipvs_get_services without the free (ret) of the failure path.
ipvs_get_services_nofree ==
    LET n == ipvs_info.num_services
    IN  { [kind |-> "exit", ok |-> FALSE, mem |-> FALSE, allocated |-> 0, ret |-> NULL] } \cup
        { [kind |-> IF k.ok THEN "table" ELSE "null",
           ok |-> k.ok,
           mem |-> TRUE,
           allocated |-> 1,
           ret |-> IF k.ok
                     THEN [num_services |-> n,
                           written |-> Len(k.written),
                           entrytable |->
                               k.written \o [m \in 1..(n - Len(k.written)) |-> rest[m]]]
                     ELSE NULL] :
            k \in KernelGetServices(n),
            rest \in [1..n -> UninitServiceEntries] }

\* ipvs_get_services that frees and returns NULL also when the kernel filled
\* a table of no entries.
ipvs_get_services_noempty ==
    LET n == ipvs_info.num_services
    IN  { [kind |-> "exit", ok |-> FALSE, mem |-> FALSE, allocated |-> 0, ret |-> NULL] } \cup
        { [kind |-> IF k.ok /\ n > 0 THEN "table" ELSE "null",
           ok |-> k.ok,
           mem |-> TRUE,
           allocated |-> IF k.ok /\ n > 0 THEN 1 ELSE 0,
           ret |-> IF k.ok
                     THEN [num_services |-> n,
                           written |-> Len(k.written),
                           entrytable |->
                               k.written \o [m \in 1..(n - Len(k.written)) |-> rest[m]]]
                     ELSE NULL] :
            k \in KernelGetServices(n),
            rest \in [1..n -> UninitServiceEntries] }

\* ipvs_get_services: exit (3) when malloc fails; NULL, with the buffer
\* freed, when getsockopt fails; else the buffer: num_services as requested,
\* the entries the kernel wrote, and whatever the rest of the buffer held.
ipvs_get_services ==
    LET n == ipvs_info.num_services
    IN  { [kind |-> "exit", ok |-> FALSE, mem |-> FALSE, allocated |-> 0, ret |-> NULL] } \cup
        { [kind |-> IF k.ok THEN "table" ELSE "null",
           ok |-> k.ok,
           mem |-> TRUE,
           allocated |-> IF k.ok THEN 1 ELSE 0,
           ret |-> IF k.ok
                     THEN [num_services |-> n,
                           written |-> Len(k.written),
                           entrytable |->
                               k.written \o [m \in 1..(n - Len(k.written)) |-> rest[m]]]
                     ELSE NULL] :
            k \in KernelGetServices(n),
            rest \in [1..n -> UninitServiceEntries] }

\* ipvs_get_dests that returns NULL, not exit (3), when malloc fails.
ipvs_get_dests_oomnull(se) ==
    LET n == se.num_dests
    IN  { [kind |-> "null", ok |-> FALSE, mem |-> FALSE, allocated |-> 0, ret |-> NULL] } \cup
        { [kind |-> IF k.ok THEN "table" ELSE "null",
           ok |-> k.ok,
           mem |-> TRUE,
           allocated |-> IF k.ok THEN 1 ELSE 0,
           ret |-> IF k.ok
                     THEN [num_dests |-> n,
                           written |-> Len(k.written),
                           entrytable |->
                               k.written \o [m \in 1..(n - Len(k.written)) |-> rest[m]]]
                     ELSE NULL] :
            k \in KernelGetDests(se, n),
            rest \in [1..n -> UninitDestEntries] }

\* ipvs_get_dests: the same for the real servers of the service entry se.
ipvs_get_dests(se) ==
    LET n == se.num_dests
    IN  { [kind |-> "exit", ok |-> FALSE, mem |-> FALSE, allocated |-> 0, ret |-> NULL] } \cup
        { [kind |-> IF k.ok THEN "table" ELSE "null",
           ok |-> k.ok,
           mem |-> TRUE,
           allocated |-> IF k.ok THEN 1 ELSE 0,
           ret |-> IF k.ok
                     THEN [num_dests |-> n,
                           written |-> Len(k.written),
                           entrytable |->
                               k.written \o [m \in 1..(n - Len(k.written)) |-> rest[m]]]
                     ELSE NULL] :
            k \in KernelGetDests(se, n),
            rest \in [1..n -> UninitDestEntries] }

(***************************************************************************)
(* collectd plugin API and helper functions.                               *)
(***************************************************************************)
\* cipvs_submit_dest with pi and ti passed on in each other's place.
cipvs_submit_dest_swapped(si, di, pi, de) ==
    LET stats == de.stats
        id == get_ti(de, name_max)
    IN  IF 0 # id.ret THEN << >>
        ELSE << Ev("dispatch", si, di,
                   cipvs_submit_connections(id.ti, pi, stats.conns)),
                Ev("dispatch", si, di,
                   cipvs_submit_if(id.ti, "if_packets", pi, stats.inpkts, stats.outpkts)),
                Ev("dispatch", si, di,
                   cipvs_submit_if(id.ti, "if_octets", pi, stats.inbytes, stats.outbytes)) >>

\* cipvs_submit_dest: nothing when the type instance does not fit, else the
\* three value lists of one real server, in the order they are dispatched.
cipvs_submit_dest(si, di, pi, de) ==
    LET stats == de.stats
        id == get_ti(de, name_max)
    IN  IF 0 # id.ret THEN << >>
        ELSE << Ev("dispatch", si, di,
                   cipvs_submit_connections(pi, id.ti, stats.conns)),
                Ev("dispatch", si, di,
                   cipvs_submit_if(pi, "if_packets", id.ti, stats.inpkts, stats.outpkts)),
                Ev("dispatch", si, di,
                   cipvs_submit_if(pi, "if_octets", id.ti, stats.inbytes, stats.outbytes)) >>

\* The loop over the destination table run from its last entry to its first.
RECURSIVE DestLoop_backwards(_, _, _, _)
DestLoop_backwards(si, pi, dests, n) ==
    IF n = 0 THEN << >>
    ELSE cipvs_submit_dest(si, n, pi, dests.entrytable[n]) \o
         DestLoop_backwards(si, pi, dests, n - 1)

\* for (i = 0; i < dests->num_dests; ++i) cipvs_submit_dest (pi, &dests->entrytable[i]);
RECURSIVE DestLoop(_, _, _, _)
DestLoop(si, pi, dests, n) ==
    IF n = 0 THEN << >>
    ELSE DestLoop(si, pi, dests, n - 1) \o
         cipvs_submit_dest(si, n, pi, dests.entrytable[n])

\* What dests->num_dests and dests->entrytable[] read when dests is NULL:
\* the process dies, or the reads yield whatever is found there.
NullDests ==
    { [crash |-> TRUE, num_dests |-> 0, written |-> 0, entrytable |-> << >>] } \cup
    { [crash |-> FALSE, num_dests |-> Len(t), written |-> 0, entrytable |-> t] :
        t \in UNION { [1..n -> UninitDestEntries] : n \in 0..MaxDests } }

\* What is read through the pointer ipvs_get_dests returned: only a NULL
\* leaves it open.
ReadThrough(d) ==
    IF d.kind = "null" THEN NullDests
    ELSE { [crash |-> FALSE, num_dests |-> 0, written |-> 0, entrytable |-> << >>] }

\* The three value lists of the service itself.
ServiceTotals(si, pi, stats) ==
    << Ev("dispatch", si, 0, cipvs_submit_connections(pi, NULL_TEXT, stats.conns)),
       Ev("dispatch", si, 0,
          cipvs_submit_if(pi, "if_packets", NULL_TEXT, stats.inpkts, stats.outpkts)),
       Ev("dispatch", si, 0,
          cipvs_submit_if(pi, "if_octets", NULL_TEXT, stats.inbytes, stats.outbytes)) >>

\* cipvs_submit_service for entry si of the table, given the result d of
\* ipvs_get_dests and, when that is NULL, what reading through it yields:
\* the events of the call, whether it returns, and the buffers it leaves.
cipvs_submit_service(si, se, d, u) ==
    LET stats == se.stats
        fetch == Ev("GET_DESTS", si, 0,
                    [ok |-> d.ok, n |-> se.num_dests,
                     written |-> IF d.ok THEN SubSeq(d.ret.entrytable, 1, d.ret.written)
                                 ELSE << >>])
        id == get_pi(se, name_max)
        built == Ev("get_pi", si, 0, id)
        nullread == Ev("read_null", si, 0, [crash |-> u.crash])
    IN  IF d.kind = "exit"
          THEN [events |-> << >>, end |-> "exited", leaked |-> 0]
        ELSE IF 0 # id.ret
          THEN [events |-> <<fetch, built>>, end |-> "return", leaked |-> d.allocated]
        ELSE IF d.kind = "null"
          THEN IF u.crash
                 THEN [events |-> <<fetch, built>> \o ServiceTotals(si, id.pi, stats) \o
                                  <<nullread>>,
                       end |-> "crashed", leaked |-> 0]
                 ELSE [events |-> <<fetch, built>> \o ServiceTotals(si, id.pi, stats) \o
                                  <<nullread>> \o DestLoop(si, id.pi, u, u.num_dests),
                       end |-> "return", leaked |-> 0]
        ELSE [events |-> <<fetch, built>> \o ServiceTotals(si, id.pi, stats) \o
                         DestLoop(si, id.pi, d.ret, d.ret.num_dests),
              end |-> "return", leaked |-> 0]

(***************************************************************************)
(* Initial state: the plugin is loaded, no callback has run; the kernel    *)
(* holds any table.                                                        *)
(***************************************************************************)
InitTables ==
    LET tcp == CHOOSE k \in ServiceKeys : k.fwmark = 0 /\ k.protocol = IPPROTO_TCP
        fwm == CHOOSE k \in ServiceKeys : k.fwmark = 1
        fw2 == CHOOSE k \in ServiceKeys : k.fwmark = 2
        d1  == CHOOSE d \in DestKeys : d.port = <<31, 144>>
        d2  == CHOOSE d \in DestKeys : d.port # <<31, 144>>
    IN  { << >>,
          << [key |-> tcp, dests |-> <<d1>>] >>,
          << [key |-> tcp, dests |-> <<d1>>], [key |-> fwm, dests |-> <<d2>>] >>,
          << [key |-> fwm, dests |-> <<d1>>], [key |-> fw2, dests |-> << >>] >> }

Loaded ==
    /\ ktable \in InitTables
    /\ changes = 0
    /\ quiet = 0
    /\ pc = "new"
    /\ sockfd = -1
    /\ ipvs_info = [num_services |-> 0]
    /\ fds = {}
    /\ acquired = << >>
    /\ released = << >>
    /\ live = 0
    /\ services = NULL
    /\ i = 0
    /\ log = << >>
    /\ rets = << >>
    /\ initlog = << >>
    /\ init_ret = << >>
    /\ nomem = FALSE

Init ==
    /\ Loaded
    /\ name_max = DATA_MAX_NAME_LEN
    /\ args = << >>
    /\ ids = << >>

\* Builds whose DATA_MAX_NAME_LEN is too short for some identifiers: 14 holds
\* no service identifier with an address and port of 8 and 2 characters, 20
\* no destination identifier of 21.
ShortNameLens == {14, 20}

InitTrunc ==
    /\ Loaded
    /\ name_max \in ShortNameLens
    /\ args = << >>
    /\ ids = << >>

(***************************************************************************)
(* The callbacks.                                                          *)
(***************************************************************************)
\* cipvs_init without the return -1 of a failed IP_VS_SO_GET_INFO.
cipvs_init_ret_partial(sock_ok, info_ok) ==
    IF ~sock_ok THEN -1
    ELSE 0

\* The return value of cipvs_init.
cipvs_init_ret(sock_ok, info_ok) ==
    IF ~sock_ok THEN -1
    ELSE IF ~info_ok THEN -1
    ELSE 0

\* The host keeps the read callback of a plugin only when its init
\* callback returned 0.
HostAfterInit(ret) == IF ret = 0 THEN "idle" ELSE "initfailed"

\* cipvs_init: socket (), then IP_VS_SO_GET_INFO into ipvs_info.
cipvs_init(sock_ok, info) ==
    /\ pc = "new"
    /\ IF ~sock_ok
         THEN /\ sockfd' = -1
              /\ initlog' = << Ev("socket", 0, 0, [ok |-> FALSE, num_services |-> 0]) >>
              /\ UNCHANGED <<ipvs_info, fds, acquired>>
         ELSE /\ sockfd' = 3
              /\ fds' = fds \cup {3}
              /\ acquired' = Append(acquired, 3)
              /\ initlog' = << Ev("socket", 0, 0, [ok |-> TRUE, num_services |-> 0]),
                               Ev("GET_INFO", 0, 0, info) >>
              /\ IF ~info.ok
                   THEN UNCHANGED ipvs_info
                   ELSE ipvs_info' = [num_services |-> info.num_services]
    /\ init_ret' = << cipvs_init_ret(sock_ok, info.ok) >>
    /\ pc' = HostAfterInit(cipvs_init_ret(sock_ok, info.ok))
    /\ UNCHANGED <<released, live, services, i, log, rets, nomem>>
    /\ UNCHANGED <<cvars, bvars>>
    /\ UNCHANGED kvars

Returned(r) == IF Len(rets) < 2 THEN Append(rets, r) ELSE <<rets[2], r>>

\* cipvs_read up to the loop: ipvs_get_services, return -1 when it is NULL.
\* (The model follows the process while fewer than MaxLive buffers are live
\* between two calls.)
cipvs_read_fetch(r) ==
    /\ pc = "idle"
    /\ live < MaxLive
    /\ quiet' = Min(quiet + 1, 2)
    /\ nomem' = ~r.mem
    /\ IF r.kind = "exit"
         THEN /\ pc' = "exited"
              /\ log' = << >>
              /\ UNCHANGED <<live, services, i, rets>>
         ELSE /\ log' = << Ev("GET_SERVICES", 0, 0,
                              [ok |-> r.ok, n |-> ipvs_info.num_services,
                               written |-> IF r.ok
                                             THEN SubSeq(r.ret.entrytable, 1, r.ret.written)
                                             ELSE << >>]) >>
              /\ live' = live + r.allocated
              /\ IF r.kind = "null"
                   THEN /\ pc' = "idle"
                        /\ rets' = Returned(-1)
                        /\ UNCHANGED <<services, i>>
                   ELSE /\ pc' = "read"
                        /\ services' = r.ret
                        /\ i' = 0
                        /\ UNCHANGED rets
    /\ UNCHANGED <<sockfd, ipvs_info, fds, acquired, released, initlog, init_ret>>
    /\ UNCHANGED <<cvars, bvars>>
    /\ UNCHANGED <<ktable, changes>>

\* One round of the loop of cipvs_read: cipvs_submit_service on entry i.
cipvs_read_service ==
    /\ pc = "read"
    /\ i < services.num_services
    /\ \E d \in ipvs_get_dests(services.entrytable[i + 1]) : \E u \in ReadThrough(d) :
       LET out == cipvs_submit_service(i + 1, services.entrytable[i + 1], d, u)
       IN  /\ nomem' = ~d.mem
           /\ log' = log \o out.events
           /\ live' = live + out.leaked
           /\ IF out.end = "return"
                THEN /\ pc' = "read"
                     /\ i' = i + 1
                ELSE /\ pc' = out.end
                     /\ UNCHANGED i
    /\ UNCHANGED <<sockfd, ipvs_info, fds, acquired, released, services, rets,
                    initlog, init_ret>>
    /\ UNCHANGED <<cvars, bvars>>
    /\ UNCHANGED kvars

\* cipvs_read after the loop: free (services); return 0.
cipvs_read_return ==
    /\ pc = "read"
    /\ ~(i < services.num_services)
    /\ live' = live - 1
    /\ services' = NULL
    /\ rets' = Returned(0)
    /\ pc' = "idle"
    /\ UNCHANGED <<sockfd, ipvs_info, fds, acquired, released, i, log,
                    initlog, init_ret, nomem>>
    /\ UNCHANGED <<cvars, bvars>>
    /\ UNCHANGED kvars

\* A close (fd) that releases nothing.
close_nothing(fd) == UNCHANGED <<fds, released>>

\* close (fd): releases an open descriptor, fails on any other.
close(fd) ==
    IF fd \in fds
      THEN /\ fds' = fds \ {fd}
           /\ released' = Append(released, fd)
      ELSE UNCHANGED <<fds, released>>

\* cipvs_shutdown: close (sockfd); the host runs it once, also after a
\* failed cipvs_init.
cipvs_shutdown ==
    /\ pc \in {"idle", "initfailed"}
    /\ close(sockfd)
    /\ pc' = "down"
    /\ UNCHANGED <<sockfd, ipvs_info, acquired, live, services, i, log, rets,
                    initlog, init_ret, nomem>>
    /\ UNCHANGED <<cvars, bvars>>
    /\ UNCHANGED kvars

(***************************************************************************)
(* The kernel table changes while the plugin runs.                         *)
(***************************************************************************)
Running == pc \in {"idle", "read"}

KernelAddService(k) ==
    /\ Running
    /\ changes < MaxChanges
    /\ Len(ktable) < MaxServices
    /\ \A m \in 1..Len(ktable) : ktable[m].key # k
    /\ ktable' = Append(ktable, [key |-> k, dests |-> << >>])
    /\ changes' = changes + 1
    /\ quiet' = 0
    /\ UNCHANGED pvars

KernelDelService(n) ==
    /\ Running
    /\ changes < MaxChanges
    /\ ktable' = Remove(ktable, n)
    /\ changes' = changes + 1
    /\ quiet' = 0
    /\ UNCHANGED pvars

KernelAddDest(n, d) ==
    /\ Running
    /\ changes < MaxChanges
    /\ Len(ktable[n].dests) < MaxDests
    /\ \A m \in 1..Len(ktable[n].dests) : ktable[n].dests[m] # d
    /\ ktable' = [ktable EXCEPT ![n].dests = Append(@, d)]
    /\ changes' = changes + 1
    /\ UNCHANGED quiet
    /\ UNCHANGED pvars

KernelDelDest(n, m) ==
    /\ Running
    /\ changes < MaxChanges
    /\ ktable' = [ktable EXCEPT ![n].dests = Remove(@, m)]
    /\ changes' = changes + 1
    /\ UNCHANGED quiet
    /\ UNCHANGED pvars

Next ==
    \/ \E sock_ok \in BOOLEAN : \E info \in KernelGetInfo : cipvs_init(sock_ok, info)
    \/ \E r \in ipvs_get_services : cipvs_read_fetch(r)
    \/ cipvs_read_service
    \/ cipvs_read_return
    \/ cipvs_shutdown
    \/ \E k \in ServiceKeys : KernelAddService(k)
    \/ \E n \in 1..Len(ktable) : KernelDelService(n)
    \/ \E n \in 1..Len(ktable) : \E d \in DestKeys : KernelAddDest(n, d)
    \/ \E n \in 1..Len(ktable) : \E m \in 1..Len(ktable[n].dests) : KernelDelDest(n, m)

Spec == Init /\ [][Next]_vars

\* The same plugin built with a short DATA_MAX_NAME_LEN.
SpecTrunc == InitTrunc /\ [][Next]_vars

(***************************************************************************)
(* get_pi on its own: called on two service entries.                       *)
(***************************************************************************)
AddrArgs ==
    { <<a, b, 0, c>> : a \in {1, 12}, b \in {1, 21}, c \in {1, 255} }

PortArgs == { <<0, 0>>, <<0, 80>>, <<80, 0>>, <<255, 255>> }

ServiceArgs ==
    { [fwmark |-> 0, protocol |-> p, addr |-> a, port |-> q] :
        p \in {IPPROTO_TCP, IPPROTO_UDP}, a \in AddrArgs, q \in PortArgs }

InitPi ==
    /\ Loaded
    /\ ktable = << >>
    /\ name_max = DATA_MAX_NAME_LEN
    /\ args \in ServiceArgs \X ServiceArgs
    /\ ids = << >>

BuildPi ==
    /\ ids = << >>
    /\ ids' = << get_pi(args[1], name_max), get_pi(args[2], name_max) >>
    /\ UNCHANGED <<pc, sockfd, ipvs_info, fds, acquired, released, live, services, i,
                    log, rets, initlog, init_ret, nomem, cvars, args>>
    /\ UNCHANGED kvars

SpecPi == InitPi /\ [][BuildPi]_vars

(***************************************************************************)
(* get_ti on its own: called on two entries of a destination table.        *)
(***************************************************************************)
DestArgs == { [addr |-> a, port |-> q] : a \in AddrArgs, q \in PortArgs }

InitTi ==
    /\ Loaded
    /\ ktable = << >>
    /\ name_max = DATA_MAX_NAME_LEN
    /\ args \in DestArgs \X DestArgs
    /\ ids = << >>

BuildTi ==
    /\ ids = << >>
    /\ ids' = << get_ti(args[1], name_max), get_ti(args[2], name_max) >>
    /\ UNCHANGED <<pc, sockfd, ipvs_info, fds, acquired, released, live, services, i,
                    log, rets, initlog, init_ret, nomem, cvars, args>>
    /\ UNCHANGED kvars

SpecTi == InitTi /\ [][BuildTi]_vars

(***************************************************************************)
(* Reading the record of a read cycle.                                     *)
(***************************************************************************)
Events(ev) == { n \in 1..Len(log) : log[n].ev = ev }

\* The read cycle whose record log holds has returned to the host.
CycleReturned == pc = "idle" /\ log # << >>

\* ... or has ended some way: returned, or the process died in it.
CycleOver == log # << >> /\ pc \in {"idle", "crashed"}

LastRet == rets[Len(rets)]

ServicesFetched == log # << >> /\ log[1].arg.ok

\* The positions of the service table the cycle asked for, and what the
\* kernel wrote into them.
Entries == IF log = << >> THEN {} ELSE 1..log[1].arg.n

Written == IF log = << >> THEN << >> ELSE log[1].arg.written

Range(q) == { q[n] : n \in 1..Len(q) }

DestFetchFailed(si) ==
    \E n \in Events("GET_DESTS") : log[n].si = si /\ ~log[n].arg.ok

PiBuilt(si) ==
    \E n \in Events("get_pi") : log[n].si = si /\ log[n].arg.ret = 0

\* The value lists dispatched for entry si of the service table: its own
\* (di = 0) and those of its real servers (di > 0).
ServiceLevel(si) ==
    { log[n].arg : n \in { n \in Events("dispatch") : log[n].si = si /\ log[n].di = 0 } }

DestLevel(si) ==
    { log[n].arg : n \in { n \in Events("dispatch") : log[n].si = si /\ log[n].di > 0 } }

TotalsOf(pi, stats) ==
    { [type |-> "connections", plugin |-> "ipvs", plugin_instance |-> pi,
       type_instance |-> total, values |-> <<stats.conns>>],
      [type |-> "if_packets", plugin |-> "ipvs", plugin_instance |-> pi,
       type_instance |-> total, values |-> <<stats.inpkts, stats.outpkts>>],
      [type |-> "if_octets", plugin |-> "ipvs", plugin_instance |-> pi,
       type_instance |-> total, values |-> <<stats.inbytes, stats.outbytes>>] }

HasTotals(si) ==
    /\ { v.type : v \in ServiceLevel(si) } = {"connections", "if_packets", "if_octets"}
    /\ \A v \in ServiceLevel(si) : v.type_instance = total

(***************************************************************************)
(* C1: when the destination fetch for a service fails and the service's   *)
(* identifier was built, the cycle's samples contain the service's three   *)
(* service-level samples (type instance total) and no destination-level    *)
(* sample of that service.                                                 *)
(***************************************************************************)
C1_DestFailureKeepsTotalsOnly ==
    \A si \in Entries :
        (DestFetchFailed(si) /\ PiBuilt(si)) =>
            (HasTotals(si) /\ DestLevel(si) = {})

(***************************************************************************)
(* C2: a failed destination fetch for one service suppresses no sample of  *)
(* another service: the cycle goes on over every entry of the table, each  *)
(* other service gets its service-level samples, and cipvs_read returns 0. *)
(***************************************************************************)
C2_SiblingIsolation ==
    (CycleOver /\ ServicesFetched /\ \E si \in Entries : DestFetchFailed(si)) =>
        /\ pc = "idle"
        /\ LastRet = 0
        /\ \A sj \in Entries : HasTotals(sj)

(***************************************************************************)
(* C3: after a failed fetch or identifier build the collector never reads  *)
(* through a table pointer that was not returned, and the process does not *)
(* die in the cycle.                                                       *)
(***************************************************************************)
C3_NoMissingTableUse ==
    /\ Events("read_null") = {}
    /\ pc # "crashed"

(***************************************************************************)
(* C4: a cycle whose service table fetch the kernel refuses dispatches     *)
(* nothing, asks for no destination table, leaves no buffer allocated and  *)
(* returns -1.                                                             *)
(***************************************************************************)
C4_ServiceFetchFailure ==
    (log # << >> /\ ~log[1].arg.ok) =>
        /\ Events("dispatch") = {}
        /\ Events("GET_DESTS") = {}
        /\ Len(log) = 1
        /\ live = 0
        /\ pc \in {"idle", "down"}
        /\ rets # << >> /\ LastRet = -1

C4_Witness ==
    /\ pc = "idle"
    /\ log # << >> /\ ~log[1].arg.ok
    /\ log[1].arg.n > 0
    /\ Len(ktable) > 0

(***************************************************************************)
(* C5: once the kernel's service table has stopped changing, a later read  *)
(* cycle asks for and reports every service of it: the second cycle begun  *)
(* since the last change of the table fetches all its services and, when   *)
(* it returns, has dispatched the service-level samples of each.           *)
(***************************************************************************)
C5_GrowthIsTransient ==
    (quiet = 2 /\ ServicesFetched /\ pc \in {"read", "idle"}) =>
        /\ Len(Written) = Len(ktable)
        /\ CycleReturned => \A si \in 1..Len(ktable) : HasTotals(si)

(***************************************************************************)
(* C6: every destination-level sample of a service carries the plugin      *)
(* instance built for that service in the cycle, the one its service-level *)
(* samples carry.                                                          *)
(***************************************************************************)
C6_DestPluginInstance ==
    \A n \in Events("dispatch") :
        log[n].di > 0 =>
            /\ \E m \in Events("get_pi") :
                   /\ log[m].si = log[n].si
                   /\ log[m].arg.ret = 0
                   /\ log[m].arg.pi = log[n].arg.plugin_instance
            /\ \A v \in ServiceLevel(log[n].si) :
                   v.plugin_instance = log[n].arg.plugin_instance

C6_Witness ==
    \E n \in Events("dispatch") :
        /\ log[n].di > 0
        /\ \E m \in Events("GET_DESTS") :
               log[m].si = log[n].si /\ log[m].arg.ok /\ Len(log[m].arg.written) > 0
        /\ Cardinality(ServiceLevel(log[n].si)) = 3

(***************************************************************************)
(* C7: in a cycle where every fetch and identifier build succeeds, the     *)
(* samples dispatched are exactly, for each service the kernel reported,   *)
(* connections, if_packets and if_octets with type instance total, and the *)
(* same three for each real server the kernel reported for it, with the    *)
(* counters as the kernel reported them.                                   *)
(***************************************************************************)
DestsWritten(si) ==
    LET n == CHOOSE n \in Events("GET_DESTS") : log[n].si = si
    IN  log[n].arg.written

ReportedSamples ==
    UNION { LET se == Written[si]
                pi == get_pi(se, DATA_MAX_NAME_LEN).pi
                ds == DestsWritten(si)
            IN  TotalsOf(pi, se.stats) \cup
                UNION { LET ti == get_ti(ds[m], DATA_MAX_NAME_LEN).ti
                            st == ds[m].stats
                        IN  { [type |-> "connections", plugin |-> "ipvs",
                               plugin_instance |-> pi, type_instance |-> ti,
                               values |-> <<st.conns>>],
                              [type |-> "if_packets", plugin |-> "ipvs",
                               plugin_instance |-> pi, type_instance |-> ti,
                               values |-> <<st.inpkts, st.outpkts>>],
                              [type |-> "if_octets", plugin |-> "ipvs",
                               plugin_instance |-> pi, type_instance |-> ti,
                               values |-> <<st.inbytes, st.outbytes>>] } :
                        m \in 1..Len(ds) } :
            si \in 1..Len(Written) }

AllFetchesAndBuildsSucceeded ==
    /\ ServicesFetched
    /\ \A n \in Events("GET_DESTS") : log[n].arg.ok
    /\ \A n \in Events("get_pi") : log[n].arg.ret = 0

C7_CountersPassThrough ==
    (CycleReturned /\ LastRet = 0 /\ AllFetchesAndBuildsSucceeded) =>
        Samples(log) = ReportedSamples

(***************************************************************************)
(* C8: over init, reads and shutdown, also when init fails, the handle     *)
(* socket () returned is held until shutdown and released there exactly    *)
(* once; shutdown releases nothing that was not acquired.                  *)
(***************************************************************************)
C8_HandleReleasedOnceAtShutdown ==
    /\ pc = "down" => (fds = {} /\ released = acquired)
    /\ pc \in {"new", "idle", "read", "initfailed"} =>
           (released = << >> /\ fds = Range(acquired))
    /\ Len(acquired) <= 1
    /\ Range(released) \subseteq Range(acquired)

C8_Witness ==
    /\ pc = "down"
    /\ init_ret = << -1 >>
    /\ acquired # << >>
    /\ released = acquired

(***************************************************************************)
(* C9: cipvs_init fails exactly when socket () or the global info fetch    *)
(* fails; after a failed init no read cycle runs (no query, no sample);    *)
(* after a successful one the handle is open and the stored service count  *)
(* is the one the kernel reported.                                         *)
(***************************************************************************)
C9_InitAllOrNothing ==
    init_ret # << >> =>
        /\ init_ret[1] \in {0, -1}
        /\ init_ret[1] = -1 <=> \E n \in 1..Len(initlog) : ~initlog[n].arg.ok
        /\ init_ret[1] = -1 =>
               (log = << >> /\ rets = << >> /\ pc \in {"initfailed", "down"})
        /\ init_ret[1] = 0 =>
               /\ Len(initlog) = 2
               /\ ipvs_info.num_services = initlog[2].arg.num_services
               /\ pc # "down" => (sockfd # -1 /\ sockfd \in fds)

C9_Witness ==
    /\ init_ret = << -1 >>
    /\ Len(initlog) = 2
    /\ Len(ktable) > 0
    /\ pc = "down"

(***************************************************************************)
(* C10: a cycle that fails at the service table fetch leaves the handle    *)
(* and the stored service count as they were, and the cycle after it, when *)
(* the kernel accepts its service table request, dispatches the samples of *)
(* the services fetched and returns 0.                                     *)
(***************************************************************************)
PreviousCycleFailed ==
    IF pc = "crashed" THEN rets # << >> /\ LastRet = -1
    ELSE Len(rets) = 2 /\ rets[1] = -1

C10_RetryAfterFailedFetch ==
    /\ (pc = "idle" /\ rets # << >> /\ LastRet = -1) =>
           /\ sockfd \in fds
           /\ ipvs_info.num_services = initlog[2].arg.num_services
    /\ (CycleOver /\ ServicesFetched /\ PreviousCycleFailed) =>
           /\ pc = "idle"
           /\ LastRet = 0
           /\ \A si \in Entries : HasTotals(si)

(***************************************************************************)
(* C11: an identifier that does not fit DATA_MAX_NAME_LEN skips its entity *)
(* only.  A service whose identifier does not fit gets no sample, neither  *)
(* its own nor of its real servers; a real server whose identifier does    *)
(* not fit gets no sample; every other real server the kernel reported     *)
(* gets its three samples, the loop over the services goes on past the     *)
(* skipped one, and the process does not die at it.                        *)
(***************************************************************************)
\* The identifiers in full, and whether a text and its NUL fit the buffers.
FullPi(se) == get_pi(se, DATA_MAX_NAME_LEN).pi

FullTi(de) == get_ti(de, DATA_MAX_NAME_LEN).ti

Fits(text) == Len(text) + 1 <= name_max

Processed(si) == \E n \in Events("get_pi") : log[n].si = si

DestSamples(si, di) ==
    { log[n].arg : n \in { n \in Events("dispatch") : log[n].si = si /\ log[n].di = di } }

C11_TruncationSkipsEntity ==
    ServicesFetched =>
        /\ \A n \in Events("get_pi") :
               log[n].arg.ret # 0 =>
                   /\ ServiceLevel(log[n].si) = {}
                   /\ DestLevel(log[n].si) = {}
                   /\ pc \in {"read", "crashed", "exited"} => i >= log[n].si
                   /\ pc \in {"idle", "down"} => \A sj \in Entries : Processed(sj)
        /\ \A si \in 1..Len(Written) :
               (Processed(si) /\ ~Fits(FullPi(Written[si]))) =>
                   /\ ~PiBuilt(si)
                   /\ ServiceLevel(si) = {}
                   /\ DestLevel(si) = {}
        /\ \A m \in Events("GET_DESTS") :
               (log[m].arg.ok /\ PiBuilt(log[m].si)) =>
                   \A di \in 1..Len(log[m].arg.written) :
                       LET ti == FullTi(log[m].arg.written[di])
                       IN  IF Fits(ti)
                             THEN { v.type_instance : v \in DestSamples(log[m].si, di) } = {ti}
                             ELSE DestSamples(log[m].si, di) = {}

C11_Witness ==
    /\ pc = "idle"
    /\ ServicesFetched
    /\ LastRet = 0
    /\ \E n \in Events("get_pi") :
           /\ log[n].arg.ret # 0
           /\ \E sj \in Entries :
                  /\ sj > log[n].si
                  /\ HasTotals(sj)
                  /\ \E m \in Events("GET_DESTS") :
                         /\ log[m].si = sj
                         /\ log[m].arg.ok
                         /\ Len(log[m].arg.written) = 2
                         /\ DestSamples(sj, 1) = {}
                         /\ Cardinality(DestSamples(sj, 2)) = 3

(***************************************************************************)
(* C12: for service entries with protocol TCP or UDP, get_pi succeeds and  *)
(* the identifier reads address_PROTOport: the four address bytes in       *)
(* dotted decimal, TCP or UDP, the port as a decimal number in host byte   *)
(* order; two different (protocol, address, port) never get the same       *)
(* identifier.                                                             *)
(***************************************************************************)
\* Reading an identifier back: the fields between separators, and the
\* number a decimal numeral stands for.
Char(s, k) == SubSeq(s, k, k)

RECURSIVE SplitOn(_, _)
SplitOn(s, c) ==
    LET P == { k \in 1..Len(s) : Char(s, k) = c }
    IN  IF P = {} THEN <<s>>
        ELSE LET k == CHOOSE k \in P : \A j \in P : k <= j
             IN  <<SubSeq(s, 1, k - 1)>> \o SplitOn(SubSeq(s, k + 1, Len(s)), c)

IsNumeral(x) ==
    /\ Len(x) >= 1
    /\ \A k \in 1..Len(x) : \E d \in 0..9 : Char(x, k) = Digits[d + 1]
    /\ Len(x) > 1 => Char(x, 1) # "0"

RECURSIVE Val(_)
Val(x) ==
    IF Len(x) = 0 THEN 0
    ELSE Val(SubSeq(x, 1, Len(x) - 1)) * 10 +
         (CHOOSE d \in 0..9 : Char(x, Len(x)) = Digits[d + 1])

IsDotted(x, addr) ==
    LET f == SplitOn(x, ".")
    IN  /\ Len(f) = 4
        /\ \A k \in 1..4 : IsNumeral(f[k]) /\ Val(f[k]) = addr[k]

IsServiceId(pi, se) ==
    LET f == SplitOn(pi, "_")
    IN  /\ Len(f) = 2
        /\ IsDotted(f[1], se.addr)
        /\ SubSeq(f[2], 1, 3) = (IF se.protocol = IPPROTO_TCP THEN "TCP" ELSE "UDP")
        /\ IsNumeral(SubSeq(f[2], 4, Len(f[2])))
        /\ Val(SubSeq(f[2], 4, Len(f[2]))) = 256 * se.port[1] + se.port[2]

C12_ServiceIdFormat ==
    (ids # << >> /\ args \in ServiceArgs \X ServiceArgs) =>
        /\ \A j \in 1..2 : ids[j].ret = 0 /\ IsServiceId(ids[j].pi, args[j])
        /\ args[1] # args[2] => ids[1].pi # ids[2].pi

C12_Witness ==
    /\ ids # << >>
    /\ args \in ServiceArgs \X ServiceArgs
    /\ args[1].addr = <<1, 21, 0, 1>> /\ args[2].addr = <<12, 1, 0, 1>>
    /\ args[1].port = <<0, 80>> /\ args[2].port = <<80, 0>>
    /\ args[1].protocol = IPPROTO_UDP /\ args[2].protocol = IPPROTO_TCP
    /\ ids[1].ret = 0 /\ ids[2].ret = 0

(***************************************************************************)
(* C13: for destination entries, get_ti succeeds and the identifier reads  *)
(* address_port: the four address bytes in dotted decimal and the port as  *)
(* a decimal number in host byte order; two different (address, port) of a *)
(* destination table never get the same identifier.                        *)
(***************************************************************************)
IsDestId(ti, de) ==
    LET f == SplitOn(ti, "_")
    IN  /\ Len(f) = 2
        /\ IsDotted(f[1], de.addr)
        /\ IsNumeral(f[2])
        /\ Val(f[2]) = 256 * de.port[1] + de.port[2]

C13_DestIdFormat ==
    (ids # << >> /\ args \in DestArgs \X DestArgs) =>
        /\ \A j \in 1..2 : ids[j].ret = 0 /\ IsDestId(ids[j].ti, args[j])
        /\ args[1] # args[2] => ids[1].ti # ids[2].ti

C13_Witness ==
    /\ ids # << >>
    /\ args \in DestArgs \X DestArgs
    /\ args[1].addr = <<12, 1, 0, 255>> /\ args[2].addr = <<12, 1, 0, 255>>
    /\ args[1].port = <<255, 255>> /\ args[2].port = <<0, 0>>
    /\ ids[1].ret = 0 /\ ids[2].ret = 0

(***************************************************************************)
(* C14: when the service count used for sizing is 0 and the kernel accepts *)
(* the request, ipvs_get_services returns a table of no entries, and the   *)
(* cycle dispatches nothing, asks for no destination table, frees the      *)
(* table and returns 0.                                                    *)
(***************************************************************************)
C14_ZeroCountIsEmptySuccess ==
    (log # << >> /\ log[1].arg.ok /\ log[1].arg.n = 0) =>
        /\ Written = << >>
        /\ Len(log) = 1
        /\ Events("dispatch") = {}
        /\ Events("GET_DESTS") = {}
        /\ pc \in {"read", "idle", "down"}
        /\ pc = "read" =>
               (services # NULL /\ services.num_services = 0 /\ services.entrytable = << >>)
        /\ pc \in {"idle", "down"} => (rets # << >> /\ LastRet = 0 /\ live = 0)

C14_Witness ==
    /\ pc = "idle"
    /\ log # << >> /\ log[1].arg.ok /\ log[1].arg.n = 0
    /\ rets = <<-1, 0>>
    /\ Len(ktable) > 0

(***************************************************************************)
(* C15: a malloc that fails while sizing the buffer of the service table   *)
(* or of a destination table ends the process there: the step in which it  *)
(* fails dispatches nothing and issues no kernel query, the cycle returns  *)
(* no result, and nothing happens afterwards.                              *)
(***************************************************************************)
FatalStep ==
    /\ (nomem' /\ ~nomem) =>
           /\ pc' = "exited"
           /\ rets' = rets
           /\ live' = live
           /\ (pc = "idle" => log' = << >>)
           /\ (pc = "read" => log' = log)
    /\ nomem => (nomem' /\ UNCHANGED <<pc, log, rets, live, fds>>)

C15_AllocationFailureIsFatal == [][FatalStep]_vars

C15_Witness ==
    /\ nomem
    /\ pc = "exited"
    /\ i = 1
    /\ Events("dispatch") # {}
    /\ HasTotals(1)

(***************************************************************************)
(* C16: for each service of a cycle the identifier is built first, then    *)
(* the three service-level samples are dispatched, then the destination    *)
(* table is fetched: every destination table query comes after a           *)
(* successful identifier build and after the service-level samples of its  *)
(* service.                                                                *)
(***************************************************************************)
C16_BuildEmitThenFetch ==
    \A n \in Events("GET_DESTS") :
        /\ \E m \in Events("get_pi") :
               m < n /\ log[m].si = log[n].si /\ log[m].arg.ret = 0
        /\ Cardinality({ m \in Events("dispatch") :
                            m < n /\ log[m].si = log[n].si /\ log[m].di = 0 }) = 3

(***************************************************************************)
(* C17: two different services the kernel reported in a cycle, different   *)
(* by the firewall mark when it is set and by protocol, address and port   *)
(* otherwise, never get the same plugin instance.                          *)
(***************************************************************************)
IdentityKey(se) ==
    IF se.fwmark # 0 THEN <<"fwmark", se.fwmark>>
    ELSE <<"triple", se.protocol, se.addr, se.port>>

PiOf(si) ==
    LET n == CHOOSE n \in Events("get_pi") : log[n].si = si
    IN  log[n].arg.pi

C17_DistinctServicesDistinctPi ==
    \A si, sj \in 1..Len(Written) :
        (PiBuilt(si) /\ PiBuilt(sj) /\ IdentityKey(Written[si]) # IdentityKey(Written[sj])) =>
            PiOf(si) # PiOf(sj)

(***************************************************************************)
(* C18: the collector never processes an entry the kernel did not write in *)
(* the fetch: cipvs_read works on no more service entries than the kernel  *)
(* filled, and cipvs_submit_service dispatches for no more destination     *)
(* entries than the kernel filled in the table it fetched.                 *)
(***************************************************************************)
C18_OnlyWrittenEntries ==
    /\ pc = "read" => services.num_services <= services.written
    /\ \A n \in 1..Len(log) :
           log[n].ev \in {"GET_DESTS", "get_pi", "dispatch"} => log[n].si <= Len(Written)
    /\ \A m \in Events("GET_DESTS") :
           log[m].arg.ok =>
               \A n \in Events("dispatch") :
                   log[n].si = log[m].si => log[n].di <= Len(log[m].arg.written)

(***************************************************************************)
(* C19: no response buffer outlives its cycle: whenever cipvs_read has     *)
(* returned, by whatever path, every service table and destination table   *)
(* buffer malloc'ed in the cycle has been freed, so no buffer is live      *)
(* between two cycles.                                                     *)
(***************************************************************************)
C19_NoBufferOutlivesCycle ==
    pc \in {"new", "initfailed", "idle", "down"} => live = 0

(***************************************************************************)
(* C20: the dispatch order of a cycle is fixed: services in the order of   *)
(* the table the kernel wrote; the three samples of a service before those *)
(* of its real servers and before any sample of a later service; real      *)
(* servers in the order of their table; the samples of each entity in the  *)
(* order connections, if_packets, if_octets.                               *)
(***************************************************************************)
TypeRank(t) == CASE t = "connections" -> 1 [] t = "if_packets" -> 2 [] t = "if_octets" -> 3

C20_DispatchOrder ==
    /\ \A n, m \in Events("dispatch") :
           n < m =>
               \/ log[n].si < log[m].si
               \/ log[n].si = log[m].si /\ log[n].di < log[m].di
               \/ /\ log[n].si = log[m].si
                  /\ log[n].di = log[m].di
                  /\ TypeRank(log[n].arg.type) < TypeRank(log[m].arg.type)
    /\ \A n \in Events("dispatch") :
           Cardinality(DestSamples(log[n].si, log[n].di)) = 3
    /\ \A si \in 1..Len(Written) :
           \A v \in ServiceLevel(si) : v.plugin_instance = FullPi(Written[si])
    /\ \A m \in Events("GET_DESTS") :
           log[m].arg.ok =>
               \A di \in 1..Len(log[m].arg.written) :
                   \A v \in DestSamples(log[m].si, di) :
                       v.type_instance = FullTi(log[m].arg.written[di])

C20_Witness ==
    /\ pc = "idle"
    /\ ServicesFetched
    /\ Len(Written) = 2
    /\ \E m \in Events("GET_DESTS") :
           /\ log[m].si = 1
           /\ log[m].arg.ok
           /\ Len(log[m].arg.written) = 2
           /\ Cardinality(DestSamples(1, 1)) = 3
           /\ Cardinality(DestSamples(1, 2)) = 3
    /\ HasTotals(2)
    /\ Cardinality(DestLevel(2)) = 3

=============================================================================
